---- MODULE Spec2Model ----
(***************************************************************************)
(* A model of the persistent sessions of the esub client (src/esub.py):    *)
(* prep/publish and psub/receive over one websocket connection, the        *)
(* keepalive task, the CONFIRM handshake and asyncio.wait_for's timeout.   *)
(*                                                                         *)
(* Python values.  A key or token is None or a str: None is the empty      *)
(* tuple <<>> and the str s is the one-element tuple <<s>>.  The psub flag *)
(* is a BOOLEAN.  A JSON text is the sequence of its lexical tokens, a     *)
(* string literal being the three tokens  "  s  "  .                        *)
(*                                                                         *)
(* The websockets library is not part of the repository.  Its connection   *)
(* is modelled by its documented behaviour: send/recv/pong raise once the  *)
(* connection is no longer open, close() is a coroutine whose body runs    *)
(* only when awaited, and the connection's async context manager awaits    *)
(* close() on exit.  asyncio.wait_for cancels the task on expiry, also     *)
(* while it awaits that close(), and raises TimeoutError once the task has *)
(* finished unwinding.                                                     *)
(*                                                                         *)
(* Spec is one persistent session.  CacheSpec is the one-shot request      *)
(* path: the calls of node_addr, sub, rep, node_ip and _cli on the         *)
(* process-wide Cache and PORT, made by two threads, with a clock in whole *)
(* seconds.  The code takes no lock, so a call is one step for each read   *)
(* or write of Cache, PORT or the clock, and the steps of the two threads  *)
(* interleave freely.                                                      *)
(***************************************************************************)
EXTENDS Integers, Sequences, FiniteSets, TLC

\* ------------------------------------------------------------------ bounds
MaxItems == 2      \* items a producer yields at most
MaxMsgs == 2       \* frames the server pushes to a subscriber at most
MaxPeriods == 2    \* keepalive periods that elapse at most
MaxTime == 2       \* the last second the clock reaches
MaxCalls == 2      \* calls into the one-shot request path at most

\* ------------------------------------------------------------ Python values
None == <<>>
Str(s) == <<s>>
Truthy(v) == v # None /\ v # Str("")

\* Python's  a or b  on None/str operands: a if a is truthy, else b
Or(a, b) == IF Truthy(a) THEN a ELSE b

\* json.dumps of None, of a str and of a bool
dumps_str(v) == IF v = None THEN <<"null">> ELSE <<"\"", v[1], "\"">>
dumps_bool(b) == IF b THEN <<"true">> ELSE <<"false">>

\* json.dumps of the dict {"key":, "token":, "psub":, "data":}
json_dumps(d) ==
    <<"{", "\"", "key", "\"", ":">> \o dumps_str(d.key)
    \o <<",", "\"", "token", "\"", ":">> \o dumps_str(d.token)
    \o <<",", "\"", "psub", "\"", ":">> \o dumps_bool(d.psub)
    \o <<",", "\"", "data", "\"", ":">> \o dumps_str(d.data)
    \o <<"}">>

\* ----------------------------------------------------------------- inputs
\* what a producer may yield: (key, token, psub, data)
Items ==
    {<<None, None, FALSE, Str("a")>>,
     <<Str("k"), Str("m"), TRUE, Str("b")>>,
     <<Str("k"), None, FALSE, Str("a")>>,
     <<Str(""), Str("m"), FALSE, Str("b")>>}
\* the payloads of a list handed to prep() as func
Payloads == {Str("a"), Str("b")}
\* what the server may push or answer
Messages == {"x", "y"}

VARIABLES
    mode,        \* "publish" (prep) or "subscribe" (psub)
    CONFIRM,     \* the process-wide ESUB_CONFIRM_RECEIPT flag
    TOKEN,       \* the process-wide ESUB_TOKEN default
    sub,         \* publish(): session-level key
    token,       \* publish(): session-level token
    psub,        \* publish(): session-level psub flag
    timeout,     \* wait_for's timeout: None or Str("T")
    shorthand,   \* prep(): func is a list of payloads, not a producer function
    pc,          \* the session task's position
    conn,        \* the websocket: "none", "open", "peerclosed", "broken", "closed"
    pinger,      \* the keepalive task: "none", "running", "cancelled", "failed"
    exc,         \* the exception unwinding through the session task
    outcome,     \* what psub()/prep() gave its caller
    io,          \* every operation performed on the connection, in order
    calls,       \* the arguments of every callback invocation, in order
    produced,    \* the items the producer has yielded, in order
    closeCalls,  \* how many times websocket.close was called
    periods,     \* keepalive periods elapsed
    Cache_timestamp,  \* Cache.timestamp: None or <<seconds>>
    Cache_ip_addr,    \* Cache.ip_addr: None or a str
    Cache_address,    \* Cache.address: None or the address built by node_addr
    Cache_session,    \* Cache.session: 0 for None, else the session's identity
    created,          \* how many requests.Session objects were created
    closed,           \* the sessions on which close() was called
    now,              \* time.time(), in whole seconds
    PORT,             \* the module global PORT, which _cli rebinds
    pending,          \* per thread: the call it is in, its position and locals
    started           \* how many calls of the one-shot request path were made

cacheVars == <<Cache_timestamp, Cache_ip_addr, Cache_address, Cache_session,
               created, closed, now, PORT, pending, started>>

sessionVars == <<mode, CONFIRM, TOKEN, sub, token, psub, timeout, shorthand,
                 pc, conn, pinger, exc, outcome, io, calls, produced,
                 closeCalls, periods>>

vars == <<sessionVars, cacheVars>>

\* what no step of a persistent session changes
config == <<mode, CONFIRM, TOKEN, sub, token, psub, timeout, shorthand, cacheVars>>

\* a Python int or str as a value, with the text format() gives it
PyInt(text) == <<"int", text>>
PyStr(text) == <<"str", text>>
\* "{}".format(v): the text of v, the same for the int 8090 and the str "8090"
format(v) == v[2]

\* PORT as the module is loaded: int(os.environ.get("ESUB_SERVICE_PORT", 8090))
PortLoaded == PyInt("8090")

\* the threads of the process that call into the module
Threads == {"A", "B"}

\* a thread in no call; also the shape of a call's frame: the function, the
\* line it is at, its arguments node and cache, its locals now (at) and
\* addr, the session it has constructed and not yet stored (new), and what
\* it returns or that it raises (failed)
NoCall ==
    [fn |-> "none", pc |-> "idle", node |-> None, cache |-> 0, at |-> 0,
     addr |-> None, new |-> 0, failed |-> FALSE, result |-> None]

\* class Cache and PORT as the module is loaded, no call made, and the clock
CacheLoaded ==
    /\ Cache_timestamp = None
    /\ Cache_ip_addr = None
    /\ Cache_address = None
    /\ Cache_session = 0
    /\ created = 0
    /\ closed = {}
    /\ now = 1
    /\ PORT = PortLoaded
    /\ pending = [t \in Threads |-> NoCall]
    /\ started = 0

\* one operation on the connection, as the log records it
Op(task, op, frame) == [task |-> task, op |-> op, frame |-> frame]

Init ==
    /\ mode \in {"publish", "subscribe"}
    /\ CONFIRM \in BOOLEAN
    /\ TOKEN \in {None, Str("e")}
    /\ sub \in (IF mode = "publish" THEN {None, Str(""), Str("s")} ELSE {None})
    /\ token \in (IF mode = "publish" THEN {None, Str("t")} ELSE {None})
    /\ psub \in (IF mode = "publish" THEN BOOLEAN ELSE {FALSE})
    /\ timeout \in {None, Str("T")}
    /\ shorthand \in (IF mode = "publish" THEN BOOLEAN ELSE {FALSE})
    /\ pc = "connect"
    /\ conn = "none"
    /\ pinger = "none"
    /\ exc = "none"
    /\ outcome = "none"
    /\ io = <<>>
    /\ calls = <<>>
    /\ produced = <<>>
    /\ closeCalls = 0
    /\ periods = 0
    /\ CacheLoaded

\* ------------------------------------------------------- pieces of the code

\* a faulty variant of StartsPinger: the keepalive task is started in either mode
StartsPinger_Always == mode = "subscribe"
\* receive(): "if not CONFIRM: pinger = asyncio.ensure_future(keepalive(...))"
StartsPinger == mode = "subscribe" /\ ~CONFIRM

\* a faulty variant of Envelope: the item's key and token win over the session's
Envelope_ItemFirst(item) ==
    [key |-> Or(item[1], sub),
     token |-> Or(Or(item[2], token), TOKEN),
     psub |-> item[3],
     data |-> item[4]]
\* a second faulty variant of Envelope: every frame carries the first item's data
Envelope_StaleData(item) ==
    [key |-> Or(sub, item[1]),
     token |-> Or(Or(token, item[2]), TOKEN),
     psub |-> (psub \/ item[3]),
     data |-> IF produced = <<>> THEN item[4] ELSE produced[1][4]]
\* publish(): the dict handed to json.dumps for one item
Envelope(item) ==
    [key |-> Or(sub, item[1]),
     token |-> Or(Or(token, item[2]), TOKEN),
     psub |-> (psub \/ item[3]),
     data |-> item[4]]

\* a faulty variant of Shorthand: the flag of every tuple is set
Shorthand_FlagSet(x) == <<sub, token, TRUE, x>>
\* prep(): "func = lambda: iter((key, token, psub, x) for x in _iter)"
Shorthand(x) == <<sub, token, psub, x>>

\* publish(): what func() may yield next
ProducerItems == IF shorthand THEN {Shorthand(x) : x \in Payloads} ELSE Items

\* publish(): "callback(msg_data, msg)"
ConfirmArgs(item, msg) == <<item[4], <<msg>>>>

\* a faulty variant of Delivered: a message equal to the one before is dropped
Delivered_Dedup(cs, msg) ==
    IF cs # <<>> /\ cs[Len(cs)] = <<<<msg>>>> THEN cs ELSE Append(cs, <<<<msg>>>>)
\* receive(): "callback(message)"
Delivered(cs, msg) == Append(cs, <<<<msg>>>>)

\* faulty variants of Probed: two probes a period / a text frame as the probe
Probed_Twice(log) ==
    Append(Append(log, Op("keepalive", "pong", <<>>)), Op("keepalive", "pong", <<>>))
Probed_AsText(log) == Append(log, Op("keepalive", "send", <<>>))
\* keepalive(): "yield from websocket.pong()"
Probed(log) == Append(log, Op("keepalive", "pong", <<>>))

\* a faulty variant of TimerArmed: a timer runs even without a timeout
TimerArmed_Always == TRUE
\* asyncio.wait_for(..., timeout): no timer is set when timeout is None
TimerArmed == timeout # None

\* faulty variants of AfterSend: never wait for a confirmation / always wait
AfterSend_NoWait == "send"
AfterSend_AlwaysWait == "recv"
\* publish(): "if CONFIRM: msg = await websocket.recv()"
AfterSend == IF CONFIRM THEN "recv" ELSE "send"

\* a faulty variant of AfterDeliver: no acknowledgement is sent
AfterDeliver_NoAck == "recv"
\* receive(): "if CONFIRM: await websocket.send("ok")"
AfterDeliver == IF CONFIRM THEN "ack" ELSE "recv"

\* the exception send/recv/pong raise on a connection that is not open
ConnExc == IF conn = "peerclosed" THEN "ConnectionClosed" ELSE "ConnectionError"

\* Task.cancel(): a running task is cancelled, a finished one is left alone
Cancel(p) == IF p = "running" THEN "cancelled" ELSE p

\* "async with websockets.connect(...)": leaving the block awaits close(),
\* which closes the connection when it runs to its end
AExitClose(c) == "closed"

\* a faulty variant of Result: a clean close by the peer is swallowed
Result_Swallow(e) ==
    IF e \in {"none", "ConnectionClosed"} THEN "ok"
    ELSE IF e = "Cancelled" THEN "Timeout" ELSE e
\* loop.run_until_complete(asyncio.wait_for(...)): what the caller gets
Result(e) ==
    IF e = "none" THEN "ok"
    ELSE IF e = "Cancelled" THEN "Timeout" ELSE e

\* publish(): "except Exception: websocket.close(); raise".  close() is
\* called and not awaited: the call is counted, the connection is untouched.
\* caught is FALSE only where the handler does not catch the exception.
RaisePublish(e, caught) ==
    /\ exc' = e
    /\ closeCalls' = IF caught THEN closeCalls + 1 ELSE closeCalls
    /\ pc' = "exit"
    /\ UNCHANGED pinger

\* receive(): "except: if not CONFIRM: pinger.cancel(); websocket.close(); raise"
RaiseSubscribe(e) ==
    /\ exc' = e
    /\ pinger' = IF ~CONFIRM THEN Cancel(pinger) ELSE pinger
    /\ closeCalls' = closeCalls + 1
    /\ pc' = "exit"

\* ------------------------------------------------------------ session task

\* websockets.connect(url) succeeds; receive() then starts the keepalive task
Connect ==
    /\ pc = "connect"
    /\ conn' = "open"
    /\ pc' = IF mode = "publish" THEN "send" ELSE "recv"
    /\ pinger' = IF StartsPinger THEN "running" ELSE pinger
    /\ io' = Append(io, Op("session", "connect", <<>>))
    /\ UNCHANGED <<config, exc, outcome, calls, produced, closeCalls, periods>>

\* websockets.connect(url) fails: nothing was opened, no handler is in scope
ConnectFail ==
    /\ pc = "connect"
    /\ pc' = "done"
    /\ exc' = "ConnectionError"
    /\ outcome' = Result("ConnectionError")
    /\ UNCHANGED <<config, conn, pinger, io, calls, produced, closeCalls, periods>>

\* publish(): the producer yields an item and its envelope is sent
PublishSend ==
    /\ mode = "publish" /\ pc = "send"
    /\ Len(produced) < MaxItems
    /\ \E item \in ProducerItems :
        /\ produced' = Append(produced, item)
        /\ IF conn = "open"
           THEN /\ io' = Append(io, Op("session", "send", json_dumps(Envelope(item))))
                /\ pc' = AfterSend
                /\ UNCHANGED <<exc, pinger, closeCalls>>
           ELSE /\ RaisePublish(ConnExc, TRUE)
                /\ UNCHANGED io
    /\ UNCHANGED <<config, conn, outcome, calls, periods>>

\* publish(): func() or its iterator raises instead of yielding an item; the
\* handler catches it unless it is no Exception (SystemExit from _from_stdin)
PublishProducerFail ==
    /\ mode = "publish" /\ pc = "send"
    /\ ~shorthand
    /\ \E caught \in BOOLEAN : RaisePublish("ProducerError", caught)
    /\ UNCHANGED <<config, conn, outcome, io, calls, produced, periods>>

\* publish(): the producer is exhausted, the for loop ends
PublishExhausted ==
    /\ mode = "publish" /\ pc = "send"
    /\ pc' = "exit"
    /\ UNCHANGED <<config, conn, pinger, exc, outcome, io, calls, produced,
                   closeCalls, periods>>

\* publish(): the confirmation arrives and callback(msg_data, msg) is called
PublishConfirm ==
    /\ mode = "publish" /\ pc = "recv"
    /\ conn = "open"
    /\ \E msg \in Messages, raises \in BOOLEAN :
        /\ io' = Append(io, Op("session", "recv", <<msg>>))
        /\ calls' = Append(calls, ConfirmArgs(produced[Len(produced)], msg))
        /\ IF raises
           THEN RaisePublish("CallerError", TRUE)
           ELSE /\ pc' = "send"
                /\ UNCHANGED <<exc, pinger, closeCalls>>
    /\ UNCHANGED <<config, conn, outcome, produced, periods>>

\* publish(): websocket.recv() raises on a connection that is not open
PublishRecvFail ==
    /\ mode = "publish" /\ pc = "recv"
    /\ conn # "open"
    /\ RaisePublish(ConnExc, TRUE)
    /\ UNCHANGED <<config, conn, outcome, io, calls, produced, periods>>

\* receive(): a message arrives and callback(message) is called
SubscribeDeliver ==
    /\ mode = "subscribe" /\ pc = "recv"
    /\ conn = "open"
    /\ Len(calls) < MaxMsgs
    /\ \E msg \in Messages, raises \in BOOLEAN :
        /\ io' = Append(io, Op("session", "recv", <<msg>>))
        /\ calls' = Delivered(calls, msg)
        /\ IF raises
           THEN RaiseSubscribe("CallerError")
           ELSE /\ pc' = AfterDeliver
                /\ UNCHANGED <<exc, pinger, closeCalls>>
    /\ UNCHANGED <<config, conn, outcome, produced, periods>>

\* receive(): websocket.recv() raises on a connection that is not open
SubscribeRecvFail ==
    /\ mode = "subscribe" /\ pc = "recv"
    /\ conn # "open"
    /\ RaiseSubscribe(ConnExc)
    /\ UNCHANGED <<config, conn, outcome, io, calls, produced, periods>>

\* receive(): await websocket.send("ok")
SubscribeAck ==
    /\ mode = "subscribe" /\ pc = "ack"
    /\ IF conn = "open"
       THEN /\ io' = Append(io, Op("session", "send", <<"ok">>))
            /\ pc' = "recv"
            /\ UNCHANGED <<exc, pinger, closeCalls>>
       ELSE /\ RaiseSubscribe(ConnExc)
            /\ UNCHANGED io
    /\ UNCHANGED <<config, conn, outcome, calls, produced, periods>>

\* the "async with" block is left: close() is called and awaited to its end,
\* then wait_for and run_until_complete hand the task's result to the caller
Exit ==
    /\ pc = "exit"
    /\ closeCalls' = closeCalls + 1
    /\ conn' = AExitClose(conn)
    /\ io' = Append(io, Op("session", "close", <<>>))
    /\ pc' = "done"
    /\ outcome' = Result(exc)
    /\ UNCHANGED <<config, pinger, exc, calls, produced, periods>>

\* ------------------------------------------------------------- wait_for

\* the timeout expires while websockets.connect is pending
TimeoutConnect ==
    /\ TimerArmed
    /\ pc = "connect"
    /\ pc' = "done"
    /\ exc' = "Cancelled"
    /\ outcome' = Result("Cancelled")
    /\ UNCHANGED <<config, conn, pinger, io, calls, produced, closeCalls, periods>>

\* the timeout expires while publish() awaits send: the item was drawn, and
\* its frame may or may not have been written.  "except Exception" catches
\* CancelledError only where it is an Exception (Python before 3.8).
TimeoutPublishSend ==
    /\ TimerArmed
    /\ mode = "publish" /\ pc = "send" /\ conn = "open"
    /\ Len(produced) < MaxItems
    /\ \E item \in ProducerItems, written \in BOOLEAN, caught \in BOOLEAN :
        /\ produced' = Append(produced, item)
        /\ io' = IF written
                 THEN Append(io, Op("session", "send", json_dumps(Envelope(item))))
                 ELSE io
        /\ RaisePublish("Cancelled", caught)
    /\ UNCHANGED <<config, conn, outcome, calls, periods>>

\* the timeout expires while publish() awaits the confirmation
TimeoutPublishRecv ==
    /\ TimerArmed
    /\ mode = "publish" /\ pc = "recv"
    /\ \E caught \in BOOLEAN : RaisePublish("Cancelled", caught)
    /\ UNCHANGED <<config, conn, outcome, io, calls, produced, periods>>

\* the timeout expires while receive() awaits recv or the send of "ok"
TimeoutSubscribe ==
    /\ TimerArmed
    /\ mode = "subscribe" /\ pc \in {"recv", "ack"}
    /\ RaiseSubscribe("Cancelled")
    /\ UNCHANGED <<config, conn, outcome, io, calls, produced, periods>>

\* the timeout expires while the task awaits close() on leaving the "async
\* with" block: close() was called and is cancelled before it has closed the
\* connection, and the caller is given TimeoutError.  wait_for sets one
\* timer, so a task it has already cancelled is not cancelled again.
TimeoutExit ==
    /\ TimerArmed
    /\ pc = "exit"
    /\ exc # "Cancelled"
    /\ closeCalls' = closeCalls + 1
    /\ exc' = IF exc = "none" THEN "Cancelled" ELSE exc
    /\ pc' = "done"
    /\ outcome' = Result("Cancelled")
    /\ UNCHANGED <<config, conn, pinger, io, calls, produced, periods>>

\* ------------------------------------------------------------ keepalive

\* keepalive(): a period has elapsed and websocket.pong() is called; on a
\* connection that is not open it raises and the task ends
KeepaliveProbe ==
    /\ pinger = "running"
    /\ periods < MaxPeriods
    /\ periods' = periods + 1
    /\ IF conn = "open"
       THEN /\ io' = Probed(io)
            /\ UNCHANGED pinger
       ELSE /\ pinger' = "failed"
            /\ UNCHANGED io
    /\ UNCHANGED <<config, pc, conn, exc, outcome, calls, produced, closeCalls>>

\* ------------------------------------------------------------------ peer

\* the server closes the connection cleanly
PeerClose ==
    /\ conn = "open" /\ pc \in {"send", "recv", "ack"}
    /\ conn' = "peerclosed"
    /\ UNCHANGED <<config, pc, pinger, exc, outcome, io, calls, produced,
                   closeCalls, periods>>

\* the connection breaks
TransportBreak ==
    /\ conn = "open" /\ pc \in {"send", "recv", "ack"}
    /\ conn' = "broken"
    /\ UNCHANGED <<config, pc, pinger, exc, outcome, io, calls, produced,
                   closeCalls, periods>>

Next ==
    \/ Connect
    \/ ConnectFail
    \/ PublishSend
    \/ PublishProducerFail
    \/ PublishExhausted
    \/ PublishConfirm
    \/ PublishRecvFail
    \/ SubscribeDeliver
    \/ SubscribeRecvFail
    \/ SubscribeAck
    \/ Exit
    \/ TimeoutConnect
    \/ TimeoutPublishSend
    \/ TimeoutPublishRecv
    \/ TimeoutSubscribe
    \/ TimeoutExit
    \/ KeepaliveProbe
    \/ PeerClose
    \/ TransportBreak

Spec == Init /\ [][Next]_vars

\* ============================================= the one-shot request path

\* the module's configuration (environment defaults)
PROTOCOL == "http"
CLUSTER == Str("localhost")

\* the node arguments of node_addr, sub and rep
Nodes == {None, Str("n1")}
\* the cache arguments of node_ip, in seconds
CacheSeconds == {0, 1, 2}
\* res.json().get("ip") of the server's /info answer: a str, or None when
\* the answer has no "ip" or a null one
Ips == {None, Str("10.0.0.1")}
\* settings["--port"] and settings["--host"] as docopt hands them to _cli,
\* and the function _cli goes on to call
CliPorts == {PyStr("8090"), PyStr("9000")}
CliHosts == {Str("localhost"), Str("n1")}
CliCommands == {"sub", "rep", "psub", "prep"}
\* settings["--timeout"] as docopt hands it to _cli: None when the option is
\* not given, else its text, here as the sequence of its characters
CliTimeouts == {None, <<"5">>, <<"5", "s">>}

\* the characters int() reads as a decimal number
Digits == {"0", "1", "2", "3", "4", "5", "6", "7", "8", "9"}

\* _cli(), line 319: int(text) raises ValueError when text, made of digits
\* and letters, has a character that is no digit
int_raises(text) == \E i \in 1..Len(text) : text[i] \notin Digits

\* node_addr(): "{}://{}:{}".format(PROTOCOL, node or CLUSTER, PORT)
Address(node, port) ==
    <<PROTOCOL, "://", Or(node, CLUSTER)[1], ":", format(port)>>

\* node_addr(): "if Cache.address != addr"
Rebuilds(addr) == Cache_address # addr

\* node_ip(): "if Cache.timestamp and cache > 0 and now - Cache.timestamp < cache",
\* now being the time the call c read at line 90.  Cache.timestamp is read
\* twice; once set it is never None again, so the outcome is that of one read.
Fresh(c) ==
    /\ Cache_timestamp # None
    /\ Cache_timestamp[1] # 0
    /\ c.cache > 0
    /\ c.at - Cache_timestamp[1] < c.cache

\* a faulty variant of Stamp: the time at which the answer is stored
Stamp_OnArrival(c) == <<now>>
\* node_ip(): "Cache.timestamp = now", the time read at line 90
Stamp(c) == <<c.at>>

\* thread t goes on as the frame c
Goes(t, c) == pending' = [pending EXCEPT ![t] = c]

\* node_addr(), line 62: addr is computed from the node argument and PORT
Formatted(c, node) ==
    [c EXCEPT !.pc = "check", !.node = None, !.addr = Address(node, PORT)]

CacheInit ==
    /\ mode = "oneshot"
    /\ CONFIRM = FALSE
    /\ TOKEN = None
    /\ sub = None /\ token = None /\ psub = FALSE
    /\ timeout = None
    /\ shorthand = FALSE
    /\ pc = "done"
    /\ conn = "none"
    /\ pinger = "none"
    /\ exc = "none"
    /\ outcome = "none"
    /\ io = <<>>
    /\ calls = <<>>
    /\ produced = <<>>
    /\ closeCalls = 0
    /\ periods = 0
    /\ CacheLoaded

\* ------------------------------------------------------------- node_addr

\* node_addr(node) is called and computes addr (line 62)
NodeAddrCall ==
    /\ mode = "oneshot"
    /\ \E t \in Threads, node \in Nodes :
        /\ pending[t].pc = "idle"
        /\ started < MaxCalls
        /\ started' = started + 1
        /\ Goes(t, Formatted([NoCall EXCEPT !.fn = "node_addr"], node))
    /\ UNCHANGED <<Cache_timestamp, Cache_ip_addr, Cache_address, Cache_session,
                   created, closed, now, PORT, sessionVars>>

\* node_addr() is entered from node_ip (line 95) or from the sub or rep that
\* _cli calls, and computes addr (line 62)
NodeAddrFormat ==
    /\ mode = "oneshot"
    /\ \E t \in Threads :
        /\ pending[t].pc = "format"
        /\ Goes(t, Formatted(pending[t], pending[t].node))
    /\ UNCHANGED <<Cache_timestamp, Cache_ip_addr, Cache_address, Cache_session,
                   created, closed, now, PORT, started, sessionVars>>

\* line 64: the cached address is compared with addr
NodeAddrCheck ==
    /\ mode = "oneshot"
    /\ \E t \in Threads :
        /\ pending[t].pc = "check"
        /\ Goes(t, [pending[t] EXCEPT
                       !.pc = IF Rebuilds(pending[t].addr) THEN "close"
                              ELSE "setaddr"])
    /\ UNCHANGED <<Cache_timestamp, Cache_ip_addr, Cache_address, Cache_session,
                   created, closed, now, PORT, started, sessionVars>>

\* lines 65-66: the session cached now, if any, is closed.  The session is
\* read twice; once set it is never None again, so the one closed is the
\* one the second read finds.
NodeAddrClose ==
    /\ mode = "oneshot"
    /\ \E t \in Threads :
        /\ pending[t].pc = "close"
        /\ closed' = IF Cache_session # 0
                     THEN closed \cup {Cache_session} ELSE closed
        /\ Goes(t, [pending[t] EXCEPT !.pc = "create"])
    /\ UNCHANGED <<Cache_timestamp, Cache_ip_addr, Cache_address, Cache_session,
                   created, now, PORT, started, sessionVars>>

\* line 67, right-hand side: requests.Session() constructs a session
NodeAddrCreate ==
    /\ mode = "oneshot"
    /\ \E t \in Threads :
        /\ pending[t].pc = "create"
        /\ created' = created + 1
        /\ Goes(t, [pending[t] EXCEPT !.pc = "store", !.new = created + 1])
    /\ UNCHANGED <<Cache_timestamp, Cache_ip_addr, Cache_address, Cache_session,
                   closed, now, PORT, started, sessionVars>>

\* line 67, assignment: the constructed session becomes Cache.session (the
\* adapter is then mounted on whatever session is cached, lines 68-74)
NodeAddrStore ==
    /\ mode = "oneshot"
    /\ \E t \in Threads :
        /\ pending[t].pc = "store"
        /\ Cache_session' = pending[t].new
        /\ Goes(t, [pending[t] EXCEPT !.pc = "setaddr", !.new = 0])
    /\ UNCHANGED <<Cache_timestamp, Cache_ip_addr, Cache_address, created,
                   closed, now, PORT, started, sessionVars>>

\* line 76: "Cache.address = addr"
NodeAddrSet ==
    /\ mode = "oneshot"
    /\ \E t \in Threads :
        /\ pending[t].pc = "setaddr"
        /\ Cache_address' = pending[t].addr
        /\ Goes(t, [pending[t] EXCEPT !.pc = "retaddr"])
    /\ UNCHANGED <<Cache_timestamp, Cache_ip_addr, Cache_session, created,
                   closed, now, PORT, started, sessionVars>>

\* line 77: "return Cache.address", read again; node_addr's caller has its
\* result, and sub, rep and node_ip send their request to it (result) and
\* wait
NodeAddrReturn ==
    /\ mode = "oneshot"
    /\ \E t \in Threads :
        /\ pending[t].pc = "retaddr"
        /\ Goes(t, [pending[t] EXCEPT
                       !.pc = IF pending[t].fn = "node_addr" THEN "ret"
                              ELSE "wait",
                       !.result = Cache_address])
    /\ UNCHANGED <<Cache_timestamp, Cache_ip_addr, Cache_address, Cache_session,
                   created, closed, now, PORT, started, sessionVars>>

\* --------------------------------------------------------------- sub, rep

\* sub(key, node=node) is called: node_addr(node or CLUSTER) computes addr
SubCall ==
    /\ mode = "oneshot"
    /\ \E t \in Threads, node \in Nodes :
        /\ pending[t].pc = "idle"
        /\ started < MaxCalls
        /\ started' = started + 1
        /\ Goes(t, Formatted([NoCall EXCEPT !.fn = "sub"], Or(node, CLUSTER)))
    /\ UNCHANGED <<Cache_timestamp, Cache_ip_addr, Cache_address, Cache_session,
                   created, closed, now, PORT, sessionVars>>

\* sub(): the GET is answered; the request or raise_for_status raises, or
\* the content is the result (which _cli, when it made the call, prints)
SubAnswer ==
    /\ mode = "oneshot"
    /\ \E t \in Threads, ok \in BOOLEAN :
        /\ pending[t].pc = "wait" /\ pending[t].fn = "sub"
        /\ Goes(t, [pending[t] EXCEPT
                       !.pc = "ret", !.failed = ~ok,
                       !.result = IF ok THEN Str("content") ELSE None])
    /\ UNCHANGED <<Cache_timestamp, Cache_ip_addr, Cache_address, Cache_session,
                   created, closed, now, PORT, started, sessionVars>>

\* rep(key, data, node=node) is called: node_addr(node or CLUSTER) computes
\* addr
RepCall ==
    /\ mode = "oneshot"
    /\ \E t \in Threads, node \in Nodes :
        /\ pending[t].pc = "idle"
        /\ started < MaxCalls
        /\ started' = started + 1
        /\ Goes(t, Formatted([NoCall EXCEPT !.fn = "rep"], Or(node, CLUSTER)))
    /\ UNCHANGED <<Cache_timestamp, Cache_ip_addr, Cache_address, Cache_session,
                   created, closed, now, PORT, sessionVars>>

\* rep(): the POST is answered; raise_for_status raises or rep returns None
RepAnswer ==
    /\ mode = "oneshot"
    /\ \E t \in Threads, ok \in BOOLEAN :
        /\ pending[t].pc = "wait" /\ pending[t].fn = "rep"
        /\ Goes(t, [pending[t] EXCEPT !.pc = "ret", !.failed = ~ok,
                                      !.result = None])
    /\ UNCHANGED <<Cache_timestamp, Cache_ip_addr, Cache_address, Cache_session,
                   created, closed, now, PORT, started, sessionVars>>

\* --------------------------------------------------------------- node_ip

\* node_ip(cache) is called and reads the clock (line 90)
NodeIpCall ==
    /\ mode = "oneshot"
    /\ \E t \in Threads, cache \in CacheSeconds :
        /\ pending[t].pc = "idle"
        /\ started < MaxCalls
        /\ started' = started + 1
        /\ Goes(t, [NoCall EXCEPT !.fn = "node_ip", !.pc = "test",
                                  !.cache = cache, !.at = now])
    /\ UNCHANGED <<Cache_timestamp, Cache_ip_addr, Cache_address, Cache_session,
                   created, closed, now, PORT, sessionVars>>

\* line 92: the stored time is tested against the time read at line 90
NodeIpTest ==
    /\ mode = "oneshot"
    /\ \E t \in Threads :
        /\ pending[t].pc = "test"
        /\ Goes(t, IF Fresh(pending[t])
                   THEN [pending[t] EXCEPT !.pc = "hit"]
                   ELSE [pending[t] EXCEPT !.pc = "format", !.cache = 0])
    /\ UNCHANGED <<Cache_timestamp, Cache_ip_addr, Cache_address, Cache_session,
                   created, closed, now, PORT, started, sessionVars>>

\* line 93: "return Cache.ip_addr", the answer stored now
NodeIpHit ==
    /\ mode = "oneshot"
    /\ \E t \in Threads :
        /\ pending[t].pc = "hit"
        /\ Goes(t, [pending[t] EXCEPT !.pc = "ret", !.result = Cache_ip_addr])
    /\ UNCHANGED <<Cache_timestamp, Cache_ip_addr, Cache_address, Cache_session,
                   created, closed, now, PORT, started, sessionVars>>

\* lines 97-100: the GET of /info is answered.  The request, raise_for_status
\* or res.json() raises; or the "ip" of the answer is stored, None when the
\* answer has none.
NodeIpAnswer ==
    /\ mode = "oneshot"
    /\ \E t \in Threads, ok \in BOOLEAN, ip \in Ips :
        /\ pending[t].pc = "wait" /\ pending[t].fn = "node_ip"
        /\ IF ok
           THEN /\ Cache_ip_addr' = ip
                /\ Goes(t, [pending[t] EXCEPT !.pc = "stamp", !.result = None])
           ELSE /\ UNCHANGED Cache_ip_addr
                /\ Goes(t, [pending[t] EXCEPT !.pc = "ret", !.failed = TRUE,
                                              !.result = None])
    /\ UNCHANGED <<Cache_timestamp, Cache_address, Cache_session, created,
                   closed, now, PORT, started, sessionVars>>

\* line 101: "Cache.timestamp = now"
NodeIpStamp ==
    /\ mode = "oneshot"
    /\ \E t \in Threads :
        /\ pending[t].pc = "stamp"
        /\ Cache_timestamp' = Stamp(pending[t])
        /\ Goes(t, [pending[t] EXCEPT !.pc = "retip"])
    /\ UNCHANGED <<Cache_ip_addr, Cache_address, Cache_session, created,
                   closed, now, PORT, started, sessionVars>>

\* line 103: "return Cache.ip_addr", read again
NodeIpResult ==
    /\ mode = "oneshot"
    /\ \E t \in Threads :
        /\ pending[t].pc = "retip"
        /\ Goes(t, [pending[t] EXCEPT !.pc = "ret", !.result = Cache_ip_addr])
    /\ UNCHANGED <<Cache_timestamp, Cache_ip_addr, Cache_address, Cache_session,
                   created, closed, now, PORT, started, sessionVars>>

\* ------------------------------------------------------------------ _cli

\* _cli(settings): PORT is rebound to settings["--port"] (line 311) on
\* every path.  Then int() of a timeout that is given raises (line 319), and
\* _cli calls nothing; or rep or sub is called with node=host and enters
\* node_addr; or psub or prep starts a persistent session, which leaves the
\* Cache alone.
CliCall ==
    /\ mode = "oneshot"
    /\ \E t \in Threads, port \in CliPorts, host \in CliHosts,
          cmd \in CliCommands, tmo \in CliTimeouts :
        /\ pending[t].pc = "idle"
        /\ started < MaxCalls
        /\ started' = started + 1
        /\ PORT' = port
        /\ Goes(t, IF tmo # None /\ int_raises(tmo)
                   THEN [NoCall EXCEPT !.fn = "_cli", !.pc = "ret",
                                       !.failed = TRUE]
                   ELSE IF cmd \in {"sub", "rep"}
                   THEN [NoCall EXCEPT !.fn = cmd, !.pc = "format",
                                       !.node = Or(host, CLUSTER)]
                   ELSE [NoCall EXCEPT !.fn = cmd, !.pc = "session"])
    /\ UNCHANGED <<Cache_timestamp, Cache_ip_addr, Cache_address, Cache_session,
                   created, closed, now, sessionVars>>

\* the persistent session that _cli started ends.  psub() ends only by
\* raising: receive() loops until recv raises or the timer cancels it
\* (lines 275-285).  prep() returns when the producer is exhausted, or raises.
CliSessionEnd ==
    /\ mode = "oneshot"
    /\ \E t \in Threads, ok \in BOOLEAN :
        /\ pending[t].pc = "session"
        /\ ok => pending[t].fn = "prep"
        /\ Goes(t, [pending[t] EXCEPT !.pc = "ret", !.failed = ~ok])
    /\ UNCHANGED <<Cache_timestamp, Cache_ip_addr, Cache_address, Cache_session,
                   created, closed, now, PORT, started, sessionVars>>

\* ---------------------------------------------------------------- common

\* the call returns or raises to its caller
Return ==
    /\ mode = "oneshot"
    /\ \E t \in Threads :
        /\ pending[t].pc = "ret"
        /\ Goes(t, NoCall)
    /\ UNCHANGED <<Cache_timestamp, Cache_ip_addr, Cache_address, Cache_session,
                   created, closed, now, PORT, started, sessionVars>>

\* a second passes
Tick ==
    /\ mode = "oneshot"
    /\ now < MaxTime
    /\ now' = now + 1
    /\ UNCHANGED <<Cache_timestamp, Cache_ip_addr, Cache_address, Cache_session,
                   created, closed, PORT, pending, started, sessionVars>>

CacheNext ==
    \/ NodeAddrCall
    \/ NodeAddrFormat
    \/ NodeAddrCheck
    \/ NodeAddrClose
    \/ NodeAddrCreate
    \/ NodeAddrStore
    \/ NodeAddrSet
    \/ NodeAddrReturn
    \/ SubCall
    \/ SubAnswer
    \/ RepCall
    \/ RepAnswer
    \/ NodeIpCall
    \/ NodeIpTest
    \/ NodeIpHit
    \/ NodeIpAnswer
    \/ NodeIpStamp
    \/ NodeIpResult
    \/ CliCall
    \/ CliSessionEnd
    \/ Return
    \/ Tick

CacheSpec == CacheInit /\ [][CacheNext]_vars

\* ============================================================ properties

\* the operations of the given kinds, in the order they were performed
OpsOf(kinds) == SelectSeq(io, LAMBDA e : e.op \in kinds)
Count(kind) == Len(OpsOf({kind}))
Connected == Count("connect") > 0

\* reading a JSON text back: a str-or-null value and a bool starting at t[i]
ParseStr(t, i) ==
    IF t[i] = "null"
    THEN [v |-> None, n |-> i + 1]
    ELSE [v |-> Str(t[i + 1]), n |-> i + 3]
ParseBool(t, i) == [v |-> (t[i] = "true"), n |-> i + 1]
\* json.loads of an envelope: the dict with its four fields
json_loads(t) ==
    LET k == ParseStr(t, 6)
        tk == ParseStr(t, k.n + 5)
        ps == ParseBool(t, tk.n + 5)
        d == ParseStr(t, ps.n + 5)
    IN [key |-> k.v, token |-> tk.v, psub |-> ps.v, data |-> d.v,
        wellformed |-> /\ t[1] = "{" /\ t[3] = "key"
                       /\ t[k.n + 2] = "token"
                       /\ t[tk.n + 2] = "psub"
                       /\ t[ps.n + 2] = "data"
                       /\ d.n = Len(t) /\ t[d.n] = "}"]

\* C1: in a publish session with CONFIRM set, sends and receives strictly
\* alternate send, receive, send, receive: the frames sent outnumber the
\* confirmations received by 0 or 1, and by 0 at normal completion.
C1_StrictAlternation ==
    (mode = "publish" /\ CONFIRM) =>
        LET sr == OpsOf({"send", "recv"}) IN
        /\ \A i \in 1..Len(sr) :
            sr[i].op = IF i % 2 = 1 THEN "send" ELSE "recv"
        /\ Count("send") - Count("recv") \in {0, 1}
        /\ (outcome = "ok" => Count("send") = Count("recv"))

C1_Witness ==
    /\ mode = "publish" /\ CONFIRM
    /\ outcome = "ok"
    /\ Count("send") = 2 /\ Count("recv") = 2

\* C2: in a publish session with CONFIRM unset nothing is received, the
\* callback is never called, no keepalive task exists and no probe is sent;
\* the frames written are the envelopes of the produced items and no others.
C2_NoConfirmationTraffic ==
    (mode = "publish" /\ ~CONFIRM) =>
        LET sent == OpsOf({"send"}) IN
        /\ Count("recv") = 0
        /\ calls = <<>>
        /\ pinger = "none"
        /\ Count("pong") = 0
        /\ Len(sent) <= Len(produced)
        /\ \A i \in 1..Len(sent) :
            /\ sent[i].task = "session"
            /\ json_loads(sent[i].frame).wellformed
            /\ json_loads(sent[i].frame).data = produced[i][4]

C2_Witness ==
    /\ mode = "publish" /\ ~CONFIRM
    /\ pc = "done"
    /\ Count("send") = 2

\* C3: in a subscribe session with CONFIRM set, every message received is
\* passed to the callback and then answered by exactly one "ok" before the
\* next receive: receives and sends alternate receive, send, every frame
\* sent is "ok", and acknowledgements never outnumber deliveries.
C3_AckAfterEachDelivery ==
    (mode = "subscribe" /\ CONFIRM) =>
        LET sr == OpsOf({"send", "recv"})
            rcv == OpsOf({"recv"})
        IN
        /\ \A i \in 1..Len(sr) :
            /\ sr[i].op = IF i % 2 = 1 THEN "recv" ELSE "send"
            /\ sr[i].op = "send" => sr[i].frame = <<"ok">>
        /\ Len(calls) = Len(rcv)
        /\ \A i \in 1..Len(rcv) : calls[i] = <<rcv[i].frame>>
        /\ Count("send") <= Len(calls)
        /\ Len(calls) - Count("send") <= 1
        /\ (pc = "recv" => Count("send") = Len(calls))

C3_Witness ==
    /\ mode = "subscribe" /\ CONFIRM
    /\ Len(calls) = 2 /\ Count("send") = 2

\* C4: while a subscribe session is open exactly one mechanism is active:
\* the keepalive task runs iff CONFIRM is unset, and acknowledgements are
\* sent iff CONFIRM is set.
C4_ExactlyOneMechanism ==
    (mode = "subscribe") =>
        /\ (Count("send") > 0 => CONFIRM)
        /\ (Count("pong") > 0 => ~CONFIRM)
        /\ (conn = "open" /\ pc \in {"recv", "ack"}) =>
            /\ (pinger = "running") <=> ~CONFIRM
            /\ (pc = "recv" =>
                    Count("send") = IF CONFIRM THEN Len(calls) ELSE 0)

C4_Witness ==
    /\ mode = "subscribe" /\ ~CONFIRM
    /\ conn = "open" /\ pc = "recv"
    /\ Len(calls) >= 1 /\ Count("pong") >= 1

\* C5: a publish session that completes normally has sent exactly one frame
\* per produced item, the i-th carrying the i-th item's data, and has closed
\* the connection after the last frame; the connection is not closed while
\* the loop runs.
C5_InOrderThenClosed ==
    (mode = "publish") =>
        LET sent == OpsOf({"send"}) IN
        /\ (pc \in {"send", "recv"} => Count("close") = 0 /\ conn # "closed")
        /\ (outcome = "ok") =>
            /\ Len(sent) = Len(produced)
            /\ \A i \in 1..Len(sent) :
                json_loads(sent[i].frame).data = produced[i][4]
            /\ conn = "closed"
            /\ Count("close") = 1
            /\ io[Len(io)].op = "close"

C5_Witness ==
    /\ mode = "publish" /\ outcome = "ok"
    /\ Len(produced) = 2
    /\ produced[1][4] # produced[2][4]
    /\ Count("send") = 2

\* the value v is the one expected of a field: want if want is non-empty,
\* and otherwise any empty value (None or "")
Carries(v, want) == IF Truthy(want) THEN v = want ELSE ~Truthy(v)

\* C6 as claimed: the envelope of every item carries the item's own key,
\* token and flag wherever the item supplies one, and the session's default
\* only where the item supplies none.
C6_ItemLevelPrecedence ==
    (mode = "publish") =>
        LET sent == OpsOf({"send"}) IN
        \A i \in 1..Len(sent) :
            LET e == json_loads(sent[i].frame)
                item == produced[i]
            IN
            /\ Carries(e.key, IF Truthy(item[1]) THEN item[1] ELSE sub)
            /\ Carries(e.token, IF Truthy(item[2]) THEN item[2]
                                ELSE IF Truthy(token) THEN token ELSE TOKEN)
            /\ e.psub = (item[3] \/ psub)

\* C6 as amended: the envelope carries the session's key and token wherever
\* the session supplies a non-empty one, the item's only where it does not
\* (the token then falling back to ESUB_TOKEN when the item has none
\* either), and its flag is set when the session's or the item's is.
C6_SessionLevelPrecedence ==
    (mode = "publish") =>
        LET sent == OpsOf({"send"}) IN
        \A i \in 1..Len(sent) :
            LET e == json_loads(sent[i].frame)
                item == produced[i]
            IN
            /\ e.wellformed
            /\ e.key = IF Truthy(sub) THEN sub ELSE item[1]
            /\ e.token = IF Truthy(token) THEN token
                         ELSE IF Truthy(item[2]) THEN item[2] ELSE TOKEN
            /\ e.psub = (psub \/ item[3])
            /\ e.data = item[4]

C6_Witness ==
    /\ mode = "publish"
    /\ Truthy(sub) /\ Truthy(token)
    /\ Count("send") >= 1
    /\ Truthy(produced[1][1]) /\ produced[1][1] # sub
    /\ Truthy(produced[1][2]) /\ produced[1][2] # token
    /\ json_loads(OpsOf({"send"})[1].frame).key = sub
    /\ json_loads(OpsOf({"send"})[1].frame).token = token

\* C7 as claimed: when the caller is given Timeout or ConnectionError the
\* session task has stopped and its connection is closed (or was never
\* opened); Timeout is given only when a timeout was set, so it cannot be
\* mistaken for a connection failure.
C7_ClosedBeforeFailure ==
    /\ (outcome \in {"Timeout", "ConnectionError"}) =>
        /\ pc = "done"
        /\ conn = IF Connected THEN "closed" ELSE "none"
        /\ io = <<>> \/ io[Len(io)].op = "close"
    /\ (outcome = "Timeout") => timeout # None

\* C8 as claimed: on every way a session that opened a connection ends,
\* close has been called on the connection exactly once.
C8_CloseCalledOnce ==
    (pc = "done" /\ Connected) => closeCalls = 1

\* C9 as claimed: in a subscribe session with CONFIRM unset the keepalive task exists
\* as soon as the session is open and is no longer running once the session
\* starts to terminate; after termination the connection is closed and no
\* probe has been written after the close.
C9_MonitorStoppedOnExit ==
    (mode = "subscribe" /\ ~CONFIRM) =>
        /\ (pc \in {"recv", "ack"} => pinger \in {"running", "failed"})
        /\ (pc \in {"exit", "done"} => pinger # "running")
        /\ (pc = "done" /\ Connected) =>
            /\ pinger \in {"cancelled", "failed"}
            /\ conn = "closed"
            /\ io[Len(io)].op = "close"

\* C10 as claimed: a clean close by the peer ends a subscribe session
\* without a failure, and fails a publish session.
C10_CleanCloseEndsSubscribeNormally ==
    (pc = "done" /\ exc = "ConnectionClosed") =>
        /\ conn = "closed"
        /\ outcome = IF mode = "subscribe" THEN "ok" ELSE "ConnectionClosed"

\* C10 as amended: a clean close by the peer stops the loop of a subscribe
\* session as it does that of a publish session, and neither call then
\* completes normally: the caller is given ConnectionClosed, with the
\* connection closed, or Timeout when a timeout was set and expired while
\* the connection was being closed.
C10_CleanCloseSurfaced ==
    /\ (exc = "ConnectionClosed") => pc \in {"exit", "done"}
    /\ (pc = "done" /\ exc = "ConnectionClosed") =>
        /\ outcome \in {"ConnectionClosed", "Timeout"}
        /\ (outcome = "ConnectionClosed") =>
            (conn = "closed" /\ io[Len(io)].op = "close")
        /\ (outcome = "Timeout") => timeout # None
    /\ (outcome = "ok") => exc = "none"

C10_Witness ==
    /\ mode = "subscribe"
    /\ pc = "done" /\ outcome = "ConnectionClosed"
    /\ Len(calls) >= 1

\* C11 as claimed: when the callback of a subscribe session raises, the loop is left at
\* once: the failing message is the last one received and is not
\* acknowledged, the keepalive task is no longer running, and the caller is
\* given the callback's failure itself once the connection is closed.
C11_CallbackFailurePropagates ==
    (mode = "subscribe" /\ exc = "CallerError") =>
        LET sr == OpsOf({"send", "recv"}) IN
        /\ pc \in {"exit", "done"}
        /\ pinger # "running"
        /\ sr # <<>> /\ sr[Len(sr)].op = "recv"
        /\ calls # <<>> /\ calls[Len(calls)] = <<sr[Len(sr)].frame>>
        /\ Count("recv") = Len(calls)
        /\ Count("send") = IF CONFIRM THEN Len(calls) - 1 ELSE 0
        /\ (pc = "done" => outcome = "CallerError" /\ conn = "closed")

\* C12 as claimed: when a send or a receive of a publish session fails, the loop is
\* left: nothing is sent again, no second connection is opened, the frames
\* sent are those of the items before the failure, and the caller is given
\* that failure once the connection is closed.
C12_NoRetryAfterFailure ==
    (mode = "publish") =>
        /\ Count("connect") <= 1
        /\ (Connected /\ exc \in {"ConnectionClosed", "ConnectionError"}) =>
            LET sent == OpsOf({"send"}) IN
            /\ pc \in {"exit", "done"}
            /\ Len(sent) <= Len(produced)
            /\ Len(produced) - Len(sent) <= 1
            /\ \A i \in 1..Len(sent) :
                json_loads(sent[i].frame).data = produced[i][4]
            /\ (pc = "done") =>
                /\ outcome = exc
                /\ conn = "closed"
                /\ io[Len(io)].op = "close" /\ Count("close") = 1

\* C13 as claimed: without a timeout no Timeout is reported; a subscribe
\* session ends only on a transport closure or error or a failure of the
\* callback, a publish session only when the producer is exhausted or a
\* send or receive fails.
C13_EndsOnlyOnTransportOrExhaustion ==
    (timeout = None) =>
        /\ outcome # "Timeout"
        /\ (pc \in {"exit", "done"}) =>
            IF mode = "subscribe"
            THEN exc \in {"ConnectionClosed", "ConnectionError", "CallerError"}
            ELSE exc \in {"none", "ConnectionClosed", "ConnectionError"}

\* C13 as amended: without a timeout no Timeout is reported and the task is
\* never cancelled; a subscribe session ends only on a transport closure or
\* error or a failure of the callback, a publish session only when the
\* producer is exhausted, a send or receive fails, or the producer or the
\* confirmation callback raises.
C13_NoTimeoutWithoutTimer ==
    (timeout = None) =>
        /\ outcome # "Timeout"
        /\ exc # "Cancelled"
        /\ (pc \in {"exit", "done"}) =>
            IF mode = "subscribe"
            THEN exc \in {"ConnectionClosed", "ConnectionError", "CallerError"}
            ELSE exc \in {"none", "ConnectionClosed", "ConnectionError",
                          "CallerError", "ProducerError"}
        /\ (mode = "publish" /\ exc = "CallerError") => CONFIRM

C13_Witness ==
    /\ timeout = None
    /\ mode = "subscribe"
    /\ pc = "done" /\ outcome = "ConnectionClosed"
    /\ Len(calls) = 2

\* C14: in a subscribe session with CONFIRM unset the keepalive task writes
\* one probe for each period that elapses while the connection is open (so
\* none before the first period has elapsed), and none once the session has
\* started to close: no probe follows the close in the connection's log.
C14_OneProbePerPeriod ==
    (mode = "subscribe" /\ ~CONFIRM) =>
        /\ Count("pong") = IF pinger = "failed" THEN periods - 1 ELSE periods
        /\ (periods = 0 => Count("pong") = 0)
        /\ (pc \in {"exit", "done"} => pinger # "running")
        /\ \A i \in 1..Len(io) : \A j \in 1..Len(io) :
            (i < j /\ io[i].op = "close") => io[j].op # "pong"

C14_Witness ==
    /\ mode = "subscribe" /\ ~CONFIRM
    /\ pc = "done" /\ conn = "closed"
    /\ periods = 2 /\ Count("pong") = 2

\* C15 as claimed: in a publish session with CONFIRM set the callback is called once
\* per confirmation received, the i-th call with the data of the i-th item
\* and the i-th frame received, before the next item is sent; when it raises
\* nothing more is sent, the connection is closed and the caller is given
\* the callback's failure.
C15_CallbackPerConfirmation ==
    (mode = "publish" /\ CONFIRM) =>
        LET rcv == OpsOf({"recv"})
            sr == OpsOf({"send", "recv"})
        IN
        /\ Len(calls) = Len(rcv)
        /\ \A i \in 1..Len(calls) : calls[i] = <<produced[i][4], rcv[i].frame>>
        /\ (pc = "send" => Len(calls) = Count("send"))
        /\ (exc = "CallerError") =>
            /\ pc \in {"exit", "done"}
            /\ Count("send") = Len(calls)
            /\ sr[Len(sr)].op = "recv"
            /\ (pc = "done" => outcome = "CallerError" /\ conn = "closed")

\* C16: in a subscribe session, with CONFIRM set or unset, the callback is
\* called once for each frame received, in the order received, with that
\* frame; every receive is issued by the session task.
C16_DeliveredOnceInOrder ==
    (mode = "subscribe") =>
        LET rcv == OpsOf({"recv"}) IN
        /\ Len(calls) = Len(rcv)
        /\ \A i \in 1..Len(rcv) :
            /\ calls[i] = <<rcv[i].frame>>
            /\ rcv[i].task = "session"

C16_Witness ==
    /\ mode = "subscribe"
    /\ Len(calls) = 2
    /\ calls[1] = calls[2]
    /\ pc = "recv"

\* C17 as claimed: when prep is given a list of payloads, every envelope
\* carries the key, token and flag given to prep and the i-th envelope the
\* i-th payload; on normal completion there is one envelope per payload.
C17_ListSentWithGivenFields ==
    (mode = "publish" /\ shorthand) =>
        LET sent == OpsOf({"send"}) IN
        /\ (outcome = "ok" => Len(sent) = Len(produced))
        /\ \A i \in 1..Len(sent) :
            LET e == json_loads(sent[i].frame) IN
            /\ e.key = sub
            /\ e.token = token
            /\ e.psub = psub
            /\ e.data = produced[i][4]

\* C17 as amended: as claimed, except that every envelope carries the token
\* given to prep when that is non-empty and the ESUB_TOKEN default otherwise.
C17_ListSentWithFixedFields ==
    (mode = "publish" /\ shorthand) =>
        LET sent == OpsOf({"send"}) IN
        /\ (outcome = "ok" => Len(sent) = Len(produced))
        /\ Len(sent) <= Len(produced)
        /\ \A i \in 1..Len(sent) :
            LET e == json_loads(sent[i].frame) IN
            /\ e.wellformed
            /\ e.key = sub
            /\ e.token = IF Truthy(token) THEN token ELSE TOKEN
            /\ e.psub = psub
            /\ e.data = produced[i][4]
            /\ produced[i][4] \in Payloads

C17_Witness ==
    /\ mode = "publish" /\ shorthand
    /\ outcome = "ok"
    /\ Count("send") = 2
    /\ produced[1][4] # produced[2][4]
    /\ ~Truthy(token) /\ Truthy(TOKEN) /\ ~psub

\* C20: on the connection of a subscribe session the keepalive task only
\* writes probes and the session task does everything else: it alone
\* receives, and the only frame it sends is "ok", and only with CONFIRM set.
C20_OnlySessionAndMonitor ==
    (mode = "subscribe") =>
        \A i \in 1..Len(io) :
            LET e == io[i] IN
            /\ e.task \in {"session", "keepalive"}
            /\ (e.task = "keepalive") =>
                (e.op = "pong" /\ e.frame = <<>> /\ ~CONFIRM)
            /\ (e.task = "session") =>
                e.op \in {"connect", "recv", "send", "close"}
            /\ (e.op = "send") => (CONFIRM /\ e.frame = <<"ok">>)

C20_Witness ==
    /\ mode = "subscribe" /\ ~CONFIRM
    /\ pc = "done"
    /\ Count("pong") >= 1 /\ Count("recv") >= 1
    /\ io[Len(io) - 1].op = "pong"

\* the address a call is for: the one it computed, or for a node_ip call
\* that computed none the address of no node
CallAddress(c) == IF c.addr = None THEN Address(None, PORT) ELSE c.addr

\* thread t is the only one in a call
Alone(t) == \A u \in Threads \ {t} : pending[u].pc = "idle"

\* C18 as claimed: the cached session is closed and replaced exactly when a
\* call's address differs from the cached address.  So when a call of
\* node_addr, sub, rep or node_ip returns, the cached address is the call's
\* and a session is cached; and with no other call in progress the cached
\* session is the latest one built and every other one built was closed.
C18_RebuiltIffAddressDiffers ==
    \A t \in Threads :
        LET c == pending[t] IN
        (c.pc = "ret" /\ c.fn \in {"node_addr", "sub", "rep", "node_ip"}) =>
            /\ Cache_address = CallAddress(c)
            /\ Cache_session # 0
            /\ Alone(t) =>
                /\ Cache_session = created
                /\ closed = (1..created) \ {Cache_session}

\* the stored answer is fresh for the call c: cache is positive, a time is
\* stored and the time c read exceeds it by less than cache seconds
StampFresh(c) ==
    /\ c.cache > 0
    /\ Cache_timestamp # None
    /\ c.at - Cache_timestamp[1] < c.cache

\* a step in which thread t, in node_ip, begins / tests the stored time /
\* returns the stored answer / gets the answer to its request / stores the time
IpBegin(t) == pending[t].pc = "idle" /\ pending'[t].fn = "node_ip"
IpTest(t) == pending[t].pc = "test" /\ pending'[t].pc # "test"
IpHit(t) == pending[t].pc = "hit" /\ pending'[t].pc # "hit"
IpAnswer(t) ==
    pending[t].fn = "node_ip" /\ pending[t].pc = "wait" /\ pending'[t].pc # "wait"
IpStamp(t) == pending[t].pc = "stamp" /\ pending'[t].pc # "stamp"

\* C19 as claimed: node_ip(cache) answers from its cache, without a request,
\* iff cache is positive and an answer stored less than cache seconds before
\* is held; otherwise it asks the server and stores the answer and the
\* current time: whenever the stored time changes, it becomes the time at
\* which it is stored.
C19_CachedWhileFresh ==
    [][/\ \A t \in Threads :
            IpTest(t) => (pending'[t].pc = "hit" <=> StampFresh(pending[t]))
       /\ Cache_timestamp' # Cache_timestamp => Cache_timestamp' = <<now'>>]_vars

\* C19 as amended: node_ip(cache) answers from its cache, without a request,
\* iff cache is positive and the time it read as it began exceeds the stored
\* time by less than cache seconds; otherwise it asks the server and, when
\* the answer arrives, stores the "ip" of the answer (None when the answer
\* has none) and then the time it read as it began, not the time of the
\* answer; when the request fails the failure propagates and the call leaves
\* the stored answer and time as they are.
C19_CachedWhileStampFresh ==
    [][/\ \A t \in Threads :
            LET c == pending[t]
                d == pending'[t]
            IN
            /\ IpBegin(t) => d.at = now
            /\ IpTest(t) =>
                /\ (d.pc = "hit") <=> StampFresh(c)
                /\ (d.pc # "hit") => d.pc = "format"
                /\ d.at = c.at
            /\ IpHit(t) =>
                /\ d.pc = "ret" /\ d.addr = None /\ ~d.failed
                /\ d.result = Cache_ip_addr
            /\ IpAnswer(t) =>
                /\ c.addr # None
                /\ d.at = c.at
                /\ IF d.failed
                   THEN /\ d.pc = "ret" /\ d.result = None
                        /\ UNCHANGED <<Cache_ip_addr, Cache_timestamp>>
                   ELSE /\ d.pc = "stamp"
                        /\ Cache_ip_addr' \in Ips
                        /\ UNCHANGED Cache_timestamp
            /\ IpStamp(t) =>
                /\ Cache_timestamp' = <<c.at>>
                /\ UNCHANGED Cache_ip_addr
       /\ (Cache_ip_addr' # Cache_ip_addr) =>
            \E t \in Threads : IpAnswer(t) /\ ~pending'[t].failed
       /\ (Cache_timestamp' # Cache_timestamp) =>
            \E t \in Threads : IpStamp(t)]_vars

C19_Witness ==
    \E t \in Threads :
        LET c == pending[t] IN
        /\ c.fn = "node_ip" /\ c.pc = "ret"
        /\ c.addr = None
        /\ c.cache = 2
        /\ Cache_timestamp # None
        /\ c.at - Cache_timestamp[1] = 1
        /\ c.result = Str("10.0.0.1")
====
